---------------------------- MODULE Spec2Model ----------------------------
(***************************************************************************)
(* Model of sdsobservatory/skycam: the ZWO ASI camera binding (app/zwo.py), *)
(* the capture engine (app/camera.py) and the HTTP surface (app/main.py).   *)
(*                                                                         *)
(* The asyncio event loop is single threaded: a coroutine runs without     *)
(* interleaving until it awaits.  Every action below is one such run       *)
(* segment, from one suspension point to the next.                         *)
(***************************************************************************)
EXTENDS Integers, Sequences, FiniteSets, TLC

(***************************************************************************)
(* Bounds of the model.                                                    *)
(***************************************************************************)
\* number of capture tasks the HTTP layer may schedule in one run
MaxTasks == 2

(***************************************************************************)
(* Enumerations of app/zwo.py.                                             *)
(***************************************************************************)
RAW8 == 0
RGB24 == 1
RAW16 == 2
Y8 == 3
ImageType == {RAW8, RGB24, RAW16, Y8}

\* ErrorCode: the driver's return codes; 0 is success
SUCCESS == 0
INVALID_ID == 2
CAMERA_CLOSED == 4
CAMERA_REMOVED == 5
GENERAL_ERROR == 16

\* ExposureStatus, by name (the name is what the failure message carries)
ExposureStatus == {"IDLE", "WORKING", "SUCCESS", "FAILED"}

\* Python's None, and a present optional value
None == <<>>
Some(v) == <<v>>

(***************************************************************************)
(* Exceptions.  NoExc is "no exception pending".                           *)
(***************************************************************************)
NoExc == [type |-> "None", msg |-> ""]
ValueError(m) == [type |-> "ValueError", msg |-> m]
\* _zwo_errors[r]: the ZwoIoError of driver return code r
ZwoIoError(r) ==
    [type |-> "ZwoIoError",
     msg |-> IF r = GENERAL_ERROR THEN "GENERAL_ERROR"
             ELSE IF r = INVALID_ID THEN "INVALID_ID"
             ELSE IF r = CAMERA_CLOSED THEN "CAMERA_CLOSED"
             ELSE IF r = CAMERA_REMOVED THEN "CAMERA_REMOVED"
             ELSE "ERROR"]
ZwoError(m) == [type |-> "ZwoError", msg |-> m]
CancelledError == [type |-> "CancelledError", msg |-> ""]
KeyError == [type |-> "KeyError", msg |-> "BayerPattern"]
MemoryError == [type |-> "MemoryError", msg |-> ""]

\* `if r: raise _zwo_errors[r]`
ZwoIoError_or_none(r) == IF r # SUCCESS THEN ZwoIoError(r) ELSE NoExc

\* except ZwoError: ZwoIoError is a subclass of ZwoError
IsZwoError(e) == e.type \in {"ZwoError", "ZwoIoError"}

(***************************************************************************)
(* Region of interest (app/zwo.py).  A driver call is given the return     *)
(* code the driver answers with; the result of an operation is             *)
(*   exc   the exception it raises (NoExc when it returns)                 *)
(*   roi   the driver's ROI state afterwards                               *)
(*   calls the mutating driver calls it issued, in order                   *)
(***************************************************************************)
ROI(x, y, width, height, bins, image_type) ==
    [x |-> x, y |-> y, width |-> width, height |-> height, bins |-> bins,
     image_type |-> image_type]

QuirkModels == {"ZWO ASI120MM", "ZWO ASI120MC"}

\* _set_roi without its multiple-of-8 test of the width
_set_roi_check_no_multiple(info, new) ==
    IF new.bins < 1 THEN ValueError("ROI bins too small")
    ELSE IF new.width < 8 THEN ValueError("ROI width too small")
    ELSE IF new.width > info.MaxWidth \div new.bins
        THEN ValueError("ROI width larger than binned sensor width")
    ELSE IF new.height < 2 THEN ValueError("ROI height too small")
    ELSE IF new.height > info.MaxHeight \div new.bins
        THEN ValueError("ROI height larger than binned sensor height")
    ELSE IF new.height % 2 # 0 THEN ValueError("ROI height must be a multiple of 2")
    ELSE IF info.Name \in {"ZWO ASI120MM", "ZWO ASI120MC"}
            /\ (new.width * new.height) % 1024 # 0
        THEN ValueError("ROI width * height must be multiple of 1024")
    ELSE NoExc

\* the validation of _set_roi, in the order of the code; NoExc when it passes
_set_roi_check(info, new) ==
    IF new.bins < 1 THEN ValueError("ROI bins too small")
    ELSE IF new.width < 8 THEN ValueError("ROI width too small")
    ELSE IF new.width > info.MaxWidth \div new.bins
        THEN ValueError("ROI width larger than binned sensor width")
    ELSE IF new.width % 8 # 0 THEN ValueError("ROI width must be a multiple of 8")
    ELSE IF new.height < 2 THEN ValueError("ROI height too small")
    ELSE IF new.height > info.MaxHeight \div new.bins
        THEN ValueError("ROI height larger than binned sensor height")
    ELSE IF new.height % 2 # 0 THEN ValueError("ROI height must be a multiple of 2")
    ELSE IF info.Name \in QuirkModels /\ (new.width * new.height) % 1024 # 0
        THEN ValueError("ROI width * height must be multiple of 1024")
    ELSE NoExc

\* _set_roi: read the camera properties (rprop), validate, ASISetROIFormat (rfmt)
_set_roi(info, cur, new, rprop, rfmt) ==
    IF rprop # SUCCESS
    THEN [exc |-> ZwoIoError(rprop), roi |-> cur, calls |-> <<>>]
    ELSE IF _set_roi_check(info, new) # NoExc
    THEN [exc |-> _set_roi_check(info, new), roi |-> cur, calls |-> <<>>]
    ELSE IF rfmt # SUCCESS
    THEN [exc |-> ZwoIoError(rfmt), roi |-> cur, calls |-> <<"ASISetROIFormat">>]
    ELSE [exc |-> NoExc,
          roi |-> [cur EXCEPT !.width = new.width, !.height = new.height,
                              !.bins = new.bins, !.image_type = new.image_type],
          calls |-> <<"ASISetROIFormat">>]

\* _set_start_position: validate, ASISetStartPos (rpos)
_set_start_position(cur, x, y, rpos) ==
    IF x < 0
    THEN [exc |-> ValueError("X position too small"), roi |-> cur, calls |-> <<>>]
    ELSE IF y < 0
    THEN [exc |-> ValueError("Y position too small"), roi |-> cur, calls |-> <<>>]
    ELSE IF rpos # SUCCESS
    THEN [exc |-> ZwoIoError(rpos), roi |-> cur, calls |-> <<"ASISetStartPos">>]
    ELSE [exc |-> NoExc, roi |-> [cur EXCEPT !.x = x, !.y = y],
          calls |-> <<"ASISetStartPos">>]

\* the return codes of the driver calls of one set_roi:
\*   get (camera_info and roi at its head), prop, fmt (in _set_roi), pos
AllOk == [get |-> SUCCESS, prop |-> SUCCESS, fmt |-> SUCCESS, pos |-> SUCCESS]

\* a resolution that takes the binned extent as the default width, unrounded
ResolveRoi_NoRounding(info, cur, x, y, width, height, bins, image_type) ==
    LET b == IF bins = None THEN cur.bins ELSE bins[1]
        it == IF image_type = None \/ image_type[1] = 0
              THEN cur.image_type ELSE image_type[1]
        bw == info.MaxWidth \div b
        bh == info.MaxHeight \div b
        w == IF width = None THEN bw ELSE width[1]
        h == IF height = None THEN bh - (bh % 2) ELSE height[1]
        x1 == IF x = None THEN (bw - w) \div 2 ELSE x[1]
        y1 == IF y = None THEN (bh - h) \div 2 ELSE y[1]
    IN  ROI(x1, y1, w, h, b, it)

\* the fields set_roi resolves from a partially given request
ResolveRoi(info, cur, x, y, width, height, bins, image_type) ==
    LET b == IF bins = None THEN cur.bins ELSE bins[1]
        \* `image_type or roi.image_type`: ImageType.RAW8 is 0, which is falsy
        it == IF image_type = None \/ image_type[1] = 0
              THEN cur.image_type ELSE image_type[1]
        bw == info.MaxWidth \div b
        bh == info.MaxHeight \div b
        w == IF width = None THEN bw - (bw % 8) ELSE width[1]
        h == IF height = None THEN bh - (bh % 2) ELSE height[1]
        x1 == IF x = None THEN (bw - w) \div 2 ELSE x[1]
        y1 == IF y = None THEN (bh - h) \div 2 ELSE y[1]
    IN  ROI(x1, y1, w, h, b, it)

\* Camera.set_roi
set_roi(info, cur, x, y, width, height, bins, image_type, rc) ==
    LET new_roi == ResolveRoi(info, cur, x, y, width, height, bins, image_type)
        fmt == _set_roi(info, cur, new_roi, rc.prop, rc.fmt)
        pos == _set_start_position(fmt.roi, new_roi.x, new_roi.y, rc.pos)
        fail(e) == [exc |-> e, roi |-> cur, calls |-> <<>>, new_roi |-> None]
    IN  IF rc.get # SUCCESS THEN fail(ZwoIoError(rc.get))
        ELSE IF bins # None /\ bins[1] \notin info.SupportedBins
        THEN fail(ValueError("Unsupported bins"))
        ELSE IF new_roi.x + new_roi.width > info.MaxWidth \div new_roi.bins
        THEN fail(ValueError("ROI and start position larger than binned sensor width"))
        ELSE IF new_roi.y + new_roi.height > info.MaxHeight \div new_roi.bins
        THEN fail(ValueError("ROI and start position larger than binned sensor height"))
        ELSE IF fmt.exc # NoExc
        THEN [exc |-> fmt.exc, roi |-> fmt.roi, calls |-> fmt.calls,
              new_roi |-> Some(new_roi)]
        ELSE [exc |-> pos.exc, roi |-> pos.roi, calls |-> fmt.calls \o pos.calls,
              new_roi |-> Some(new_roi)]

\* Camera.reset_roi
reset_roi(info, cur, rc) ==
    set_roi(info, cur, Some(0), Some(0), Some(info.MaxWidth),
            Some(info.MaxHeight), Some(1), None, rc)

\* the image_type setter
set_image_type(info, cur, value, rc) ==
    set_roi(info, cur, None, None, None, None, None, Some(value), rc)

BytesPerPixel(image_type) ==
    IF image_type = RAW16 THEN 2 ELSE IF image_type = RGB24 THEN 3 ELSE 1

\* Camera.image_size_in_bytes
image_size_in_bytes(r) == r.width * r.height * BytesPerPixel(r.image_type)



(***************************************************************************)
(* State.                                                                  *)
(***************************************************************************)
VARIABLES
    cam_info,     \* the sensor's properties, as ASIGetCameraProperty reports them
    roi,          \* the driver's ROI format and start position
    controls,     \* the driver's control values
    is_exposing,  \* Camera.is_exposing
    _buffer,      \* Camera._buffer: [id: which bytearray object, bytes]
    _fits_data,   \* Camera._fits_data: [id: which BytesIO object, bytes, closed]
    pc,           \* each capture task: "idle", "scheduled", "awaiting", "done"
    parameters,   \* each live task's ExposureParameters
    buffer_arg,   \* each live task's buffer argument of zwo capture_image_async
    entry,        \* history: _fits_data as each live task found it at its entry
    last,         \* history: the latest run segment of a capture task
    calls,        \* history: the driver calls of that segment that change the
                  \* device or read the exposure status, in order
    http,         \* history: the HTTP response sent since that segment, if any
    roi_call,     \* history: the latest direct set_roi call and its result
    life,         \* the camera handle: zwo.Camera.connected, the driver's handle,
                  \* and the latest open / close and its result
    run           \* a capture made on zwo.Camera directly: the driver's answers,
                  \* the cooperative capture so far and the blocking capture

vars == <<cam_info, roi, controls, is_exposing, _buffer, _fits_data, pc,
          parameters, buffer_arg, entry, last, calls, http, roi_call, life, run>>

Tasks == 1..MaxTasks

\* ExposureParameters (app/main.py); the exposure in microseconds
Requests ==
    {[exposure_us |-> 100000, gain |-> 10, offset |-> 1, is_dark |-> FALSE],
     [exposure_us |-> 1000000, gain |-> 20, offset |-> 2, is_dark |-> TRUE]}

NoParameters == [exposure_us |-> 0, gain |-> 0, offset |-> 0, is_dark |-> FALSE]

\* the sensors of the capture runs: a colour sensor whose full frame is a legal
\* ROI, and a mono sensor whose width is no multiple of 8
CaptureSensors ==
    {[Name |-> "ZWO ASI178MC", MaxWidth |-> 8, MaxHeight |-> 2,
      IsColorCam |-> TRUE, BayerPattern |-> 2, SupportedBins |-> {1, 2}],
     [Name |-> "ZWO ASI178MM", MaxWidth |-> 12, MaxHeight |-> 2,
      IsColorCam |-> FALSE, BayerPattern |-> 0, SupportedBins |-> {1, 2}]}

Zeros(n) == [i \in 1..n |-> 0]
Filled(n, v) == [i \in 1..n |-> v]

\* BytesIO(): a new, empty, open stream
BytesIO(id) == [id |-> id, bytes |-> <<>>, closed |-> FALSE]

\* the ROI a freshly opened camera reports: the full frame, rounded as the
\* driver requires, unbinned, 8 bit
PowerOnRoi(info) ==
    ROI(0, 0, info.MaxWidth - (info.MaxWidth % 8),
        info.MaxHeight - (info.MaxHeight % 2), 1, RAW8)

NoArg == [id |-> 0, len |-> 0]
NoSegment == [op |-> "none", t |-> 0, fail |-> <<"none", "none">>,
              cause |-> "none", exc |-> NoExc,
              awaiting |-> FALSE, fits |-> BytesIO(<<0, "init">>),
              buffer |-> [id |-> 0, bytes |-> <<>>], is_exposing |-> FALSE,
              entry |-> BytesIO(<<0, "init">>),
              status |-> "none", slept |-> None, started |-> None,
              closed |-> <<>>]
NoHttp == [req |-> "none", code |-> 0, status |-> "", content |-> <<>>,
           scheduled |-> 0]
NoRequest == [x |-> None, y |-> None, width |-> None, height |-> None,
              bins |-> None, image_type |-> None]
NoRoiCall == [exc |-> NoExc, new_roi |-> None, calls |-> <<>>, before |-> None,
              request |-> NoRequest]

\* Camera.__init__ (app/camera.py) on an opened device
NoRun == [phase |-> "idle", script |-> <<>>, fail |-> <<"none", "none">>,
          p |-> NoParameters, coop |-> None, blocking |-> None, waits |-> 0]

InitCamera ==
    /\ controls = [c \in {"GAIN", "OFFSET", "EXPOSURE"} |-> 0]
    /\ is_exposing = FALSE
    /\ _buffer = [id |-> 0, bytes |-> <<>>]
    /\ _fits_data = BytesIO(<<0, "init">>)
    /\ pc = [t \in Tasks |-> "idle"]
    /\ parameters = [t \in Tasks |-> NoParameters]
    /\ buffer_arg = [t \in Tasks |-> NoArg]
    /\ entry = [t \in Tasks |-> BytesIO(<<0, "init">>)]
    /\ last = NoSegment
    /\ calls = <<>>
    /\ http = NoHttp
    /\ roi_call = NoRoiCall
    /\ run = NoRun

(***************************************************************************)
(* A run segment of a capture task is computed on a record m of what the   *)
(* task can touch:                                                         *)
(*   is_exposing, buffer, fits   the Camera's fields                       *)
(*   roi, controls               the driver's state                        *)
(*   arg                         the task's buffer argument                *)
(*   calls                       the driver calls issued so far that        *)
(*                               change the device or read the status      *)
(*   exc                         the exception that is propagating         *)
(*   awaiting                    the task is suspended in asyncio.sleep    *)
(* The driver's answers are inputs: fail names the one driver call (or     *)
(* allocation) of the segment that fails, NoFail when none does.           *)
(***************************************************************************)
Running(m) == m.exc = NoExc /\ ~m.awaiting

\* statement Op on m; skipped when an exception propagates or the task is
\* suspended
Then(m, Op(_)) == CHOOSE r \in {IF Running(v) THEN Op(v) ELSE v : v \in {m}} : TRUE
\* clause Op on m, whatever propagates
Always(m, Op(_)) == CHOOSE r \in {Op(v) : v \in {m}} : TRUE

NoFail == <<"none", "none">>

code(fail, point) == IF fail = point THEN GENERAL_ERROR ELSE SUCCESS

\* the return codes of the set_roi issued at `stage`
ReturnCodes(fail, stage) ==
    [get |-> code(fail, <<stage, "get">>), prop |-> code(fail, <<stage, "prop">>),
     fmt |-> code(fail, <<stage, "ASISetROIFormat">>),
     pos |-> code(fail, <<stage, "ASISetStartPos">>)]

ApplyRoi(m, res) ==
    [m EXCEPT !.exc = res.exc, !.roi = res.roi, !.calls = @ \o res.calls]

\* the name a control write is logged under
ASISetControlValue(control_type) ==
    CASE control_type = "GAIN" -> "ASISetControlValue(GAIN)"
      [] control_type = "OFFSET" -> "ASISetControlValue(OFFSET)"
      [] control_type = "EXPOSURE" -> "ASISetControlValue(EXPOSURE)"

\* Camera.set_control_value / _set_control_value: ASISetControlValue (r)
set_control_value(m, control_type, value, r) ==
    IF r # SUCCESS
    THEN [m EXCEPT !.exc = ZwoIoError(r),
                   !.calls = Append(@, ASISetControlValue(control_type))]
    ELSE [m EXCEPT !.controls[control_type] = value,
                   !.calls = Append(@, ASISetControlValue(control_type))]

\* a _clear_buffer that leaves the bytes as they are
_clear_buffer_skip(buf) == buf

\* _clear_buffer (app/camera.py): every byte of the current buffer becomes 0
_clear_buffer(buf) == [buf EXCEPT !.bytes = Zeros(Len(buf.bytes))]

\* a new bytearray for every capture
EnsureBuffer_AlwaysAllocates(m, t, r) ==
    IF r # SUCCESS THEN [m EXCEPT !.exc = ZwoIoError(r)]
    ELSE [m EXCEPT !.buffer = [id |-> t, bytes |-> [i \in 1..image_size_in_bytes(m.roi) |-> 0]]]

\* lines 56-57: a new bytearray only when the length differs
EnsureBuffer(m, t, r) ==
    IF r # SUCCESS THEN [m EXCEPT !.exc = ZwoIoError(r)]
    ELSE IF Len(m.buffer.bytes) # image_size_in_bytes(m.roi)
    THEN [m EXCEPT !.buffer = [id |-> t, bytes |-> Zeros(image_size_in_bytes(m.roi))]]
    ELSE m

\* lines 45-57 of app/camera.py: configure the driver, size the buffer
\* (wb_b and wb_r are None: take_image passes neither)
Configure(m0, t, p, fail) ==
    Then(Then(Then(Then(Then(m0,
        LAMBDA m : ApplyRoi(m, reset_roi(cam_info, m.roi, ReturnCodes(fail, "reset_roi")))),
        LAMBDA m : set_control_value(m, "GAIN", p.gain, code(fail, <<"GAIN", "set">>))),
        LAMBDA m : set_control_value(m, "OFFSET", p.offset, code(fail, <<"OFFSET", "set">>))),
        LAMBDA m : ApplyRoi(m, set_image_type(cam_info, m.roi, RAW16,
                                              ReturnCodes(fail, "image_type")))),
        LAMBDA m : EnsureBuffer(m, t, code(fail, <<"image_size", "get">>)))

\* an interval without its floor of 0.01 s
PollInterval_NoFloor(exposure_us) == exposure_us \div 25

\* line 59: the poll interval, in microseconds: max(0.01, exposure / 25.0) s
PollInterval(exposure_us) ==
    IF exposure_us \div 25 > 10000 THEN exposure_us \div 25 ELSE 10000

\* the pixel bytes the driver delivers to the download issued by task t
Pixel(t) == t

\* _download_image: read the ROI format, check the buffer, ASIGetDataAfterExp.
\* A failing transfer may have written the buffer already.
_download_image(m, t, fail) ==
    IF code(fail, <<"download", "get">>) # SUCCESS
    THEN [m EXCEPT !.exc = ZwoIoError(GENERAL_ERROR)]
    ELSE IF m.arg.len # image_size_in_bytes(m.roi)
    THEN [m EXCEPT !.exc = ValueError("Buffer must be size bytes")]
    ELSE [m EXCEPT !.buffer.bytes = IF m.arg.id = m.buffer.id
                                    THEN Filled(image_size_in_bytes(m.roi), Pixel(t))
                                    ELSE @,
                   !.calls = Append(@, "ASIGetDataAfterExp"),
                   !.exc = ZwoIoError_or_none(code(fail, <<"download", "ASIGetDataAfterExp">>))]

\* _start_exposure: ASIStartExposure (r).  started records what the call
\* found: the buffer, the driver's ROI and control values
_start_exposure(m, p, r) ==
    [m EXCEPT !.calls = Append(@, "ASIStartExposure"), !.exc = ZwoIoError_or_none(r),
              !.started = Some([buffer |-> m.buffer.bytes, roi |-> m.roi,
                                controls |-> m.controls, parameters |-> p])]

\* zwo capture_image_async up to its poll loop: set the exposure time, start
StartExposure(m0, p, fail) ==
    Then(Then(m0,
        LAMBDA m : set_control_value([m EXCEPT !.arg = [id |-> m.buffer.id,
                                                        len |-> Len(m.buffer.bytes)]],
                                     "EXPOSURE", p.exposure_us,
                                     code(fail, <<"EXPOSURE", "set">>))),
        LAMBDA m : _start_exposure(m, p, code(fail, <<"start", "ASIStartExposure">>)))

\* a poll loop that fails on FAILED only: IDLE goes on to the download
PollLoop_DownloadOnIdle(m, t, p, status, fail) ==
    IF code(fail, <<"poll", "ASIGetExpStatus">>) # SUCCESS
    THEN [m EXCEPT !.exc = ZwoIoError(GENERAL_ERROR),
                   !.calls = Append(@, "ASIGetExpStatus")]
    ELSE IF status = "WORKING"
    THEN [m EXCEPT !.awaiting = TRUE, !.status = status,
                   !.calls = Append(@, "ASIGetExpStatus"),
                   !.slept = Some(PollInterval(p.exposure_us))]
    ELSE IF status = "FAILED"
    THEN [m EXCEPT !.exc = ZwoError(status), !.status = status,
                   !.calls = Append(@, "ASIGetExpStatus")]
    ELSE _download_image([m EXCEPT !.status = status,
                                   !.calls = Append(@, "ASIGetExpStatus")], t, fail)

\* a poll loop that yields once more between the SUCCESS status and the download
PollLoop_YieldBeforeDownload(m, t, p, status, fail) ==
    IF code(fail, <<"poll", "ASIGetExpStatus">>) # SUCCESS
    THEN [m EXCEPT !.exc = ZwoIoError(GENERAL_ERROR),
                   !.calls = Append(@, "ASIGetExpStatus")]
    ELSE IF status \in {"WORKING", "SUCCESS"}
    THEN [m EXCEPT !.awaiting = TRUE, !.status = status,
                   !.calls = Append(@, "ASIGetExpStatus"),
                   !.slept = Some(PollInterval(p.exposure_us))]
    ELSE [m EXCEPT !.exc = ZwoError(status), !.status = status,
                   !.calls = Append(@, "ASIGetExpStatus")]

\* zwo capture_image_async from a status read on: loop while WORKING,
\* sleeping between reads; fail on any other status but SUCCESS; download
PollLoop(m, t, p, status, fail) ==
    IF code(fail, <<"poll", "ASIGetExpStatus">>) # SUCCESS
    THEN [m EXCEPT !.exc = ZwoIoError(GENERAL_ERROR),
                   !.calls = Append(@, "ASIGetExpStatus")]
    ELSE IF status = "WORKING"
    \* poll_interval_ms != 0: the interval is at least 0.01
    THEN [m EXCEPT !.awaiting = PollInterval(p.exposure_us) # 0,
                   !.status = status,
                   !.calls = Append(@, "ASIGetExpStatus"),
                   !.slept = Some(PollInterval(p.exposure_us))]
    ELSE IF status # "SUCCESS"
    THEN [m EXCEPT !.exc = ZwoError(status), !.status = status,
                   !.calls = Append(@, "ASIGetExpStatus")]
    ELSE _download_image([m EXCEPT !.status = status,
                                   !.calls = Append(@, "ASIGetExpStatus")], t, fail)

(***************************************************************************)
(* Image assembly and the exits of Camera.capture_image_async              *)
(* (app/camera.py).  The stored artifact's bytes are the blocks the        *)
(* container writes: the header block, then the data block.                *)
(***************************************************************************)
bayer_lookup(i) ==
    CASE i = 0 -> "RGGB" [] i = 1 -> "BGGR" [] i = 2 -> "GRBG" [] i = 3 -> "GBRG"

\* lines 77-89: the header cards (the timestamps are not modelled)
Header(p, info) ==
    [IMAGETYP |-> IF p.is_dark THEN "DARK" ELSE "LIGHT",
     INSTRUME |-> info.Name,
     EXPOSURE |-> p.exposure_us,
     EXPTIME |-> p.exposure_us,
     GAIN |-> p.gain,
     OFFSET |-> p.offset,
     BAYERPAT |-> IF info.IsColorCam THEN Some(bayer_lookup(info.BayerPattern)) ELSE None,
     COLORTYP |-> IF info.IsColorCam THEN Some(bayer_lookup(info.BayerPattern)) ELSE None]

\* hdu.writeto: the header block, then the data block
Serialized(header, data) ==
    <<[block |-> "header", cards |-> header, pixels |-> <<>>],
      [block |-> "data", cards |-> None, pixels |-> data]>>
\* what a failing writeto has written
PartlySerialized(header) == <<[block |-> "header", cards |-> header, pixels |-> <<>>]>>

\* lines 91-93: close the previous artifact, store and fill a new one;
\* closed lists the artifacts the segment closed, in order
Publish(m, t, header, fail) ==
    IF code(fail, <<"assemble", "writeto">>) # SUCCESS
    THEN [m EXCEPT !.fits = [id |-> <<t, "new">>, bytes |-> PartlySerialized(header),
                             closed |-> FALSE],
                   !.closed = Append(@, m.fits.id),
                   !.exc = MemoryError]
    ELSE [m EXCEPT !.fits = [id |-> <<t, "new">>,
                             bytes |-> Serialized(header, m.buffer.bytes),
                             closed |-> FALSE],
                   !.closed = Append(@, m.fits.id)]

\* lines 73-94: build the image from the buffer and publish it
Assemble(m, t, p, fail) ==
    IF code(fail, <<"assemble", "get">>) # SUCCESS
    THEN [m EXCEPT !.exc = ZwoIoError(GENERAL_ERROR)]
    \* np.frombuffer(...).reshape((roi.height, roi.width)) of 16 bit pixels
    ELSE IF Len(m.buffer.bytes) # m.roi.height * m.roi.width * 2
    THEN [m EXCEPT !.exc = ValueError("cannot reshape array")]
    ELSE IF code(fail, <<"assemble", "PrimaryHDU">>) # SUCCESS
    THEN [m EXCEPT !.exc = MemoryError]
    ELSE IF cam_info.IsColorCam /\ cam_info.BayerPattern \notin 0..3
    THEN [m EXCEPT !.exc = KeyError]
    ELSE Publish(m, t, Header(p, cam_info), fail)

\* a stop_exposure without its try/except: a driver error gets out
stop_exposure_unguarded(r) == IF r # SUCCESS THEN ZwoIoError(r) ELSE NoExc

\* Camera.stop_exposure (app/zwo.py): the exception it lets out when
\* ASIStopExposure answers r; a ZwoError is swallowed
stop_exposure(r) ==
    IF r # SUCCESS /\ ~IsZwoError(ZwoIoError(r)) THEN ZwoIoError(r) ELSE NoExc

\* lines 69-71: on cancellation stop the exposure, then raise again
OnCancelled(m, r) ==
    [m EXCEPT !.calls = Append(@, "ASIStopExposure"),
              !.exc = IF stop_exposure(r) # NoExc THEN stop_exposure(r)
                      ELSE CancelledError]

\* `except Exception:` in place of the bare except: a cancellation passes by
ExceptClause_ExceptionOnly(m, t) ==
    IF m.exc = CancelledError THEN m
    ELSE [m EXCEPT !.buffer = [@ EXCEPT !.bytes = [i \in 1..Len(@) |-> 0]],
                   !.fits = [id |-> <<t, "reset">>, bytes |-> <<>>, closed |-> FALSE]]

\* an except clause that clears the buffer and keeps the artifact
ExceptClause_KeepArtifact(m, t) ==
    [m EXCEPT !.buffer = [@ EXCEPT !.bytes = [i \in 1..Len(@) |-> 0]]]

\* lines 95-99: the bare except: clear the buffer, drop the artifact, raise again
ExceptClause(m, t) ==
    [m EXCEPT !.buffer = _clear_buffer(@), !.fits = BytesIO(<<t, "reset">>),
              !.closed = Append(@, m.fits.id)]

\* the flag cleared on the success path only, in place of the finally clause
FinallyClause_OnSuccessOnly(m) ==
    IF m.exc = NoExc THEN [m EXCEPT !.is_exposing = FALSE] ELSE m

\* lines 100-101: the finally clause
FinallyClause(m) == [m EXCEPT !.is_exposing = FALSE]

\* an exit without the except clause
Exit_NoExcept(m, t) == IF m.awaiting THEN m ELSE [m EXCEPT !.is_exposing = FALSE]

\* the exit of capture_image_async, for a segment that did not suspend
Exit(m, t) ==
    IF m.awaiting THEN m
    ELSE IF m.exc # NoExc THEN FinallyClause(ExceptClause(m, t))
    ELSE FinallyClause(m)

\* line 43
SetExposing(m) == [m EXCEPT !.is_exposing = TRUE]

\* capture_image_async from its first line to its first suspension or its exit
EntrySegment(m0, t, p, status, fail) ==
    Always(Then(Then(Then(Then(Then(Then(m0,
        LAMBDA m : SetExposing(m)),
        LAMBDA m : Configure(m, t, p, fail)),
        LAMBDA m : [m EXCEPT !.buffer = _clear_buffer(@)]),
        LAMBDA m : StartExposure(m, p, fail)),
        LAMBDA m : PollLoop(m, t, p, status, fail)),
        LAMBDA m : Assemble(m, t, p, fail)),
        LAMBDA m : Exit(m, t))

\* capture_image_async from a wake-up in the poll loop on
PollSegment(m0, t, p, status, fail) ==
    Always(Then(Then(m0,
        LAMBDA m : PollLoop(m, t, p, status, fail)),
        LAMBDA m : Assemble(m, t, p, fail)),
        LAMBDA m : Exit(m, t))

\* capture_image_async when the suspended task is cancelled
CancelSegment(m0, t, r) ==
    Always(Always(m0, LAMBDA m : OnCancelled(m, r)), LAMBDA m : Exit(m, t))

(***************************************************************************)
(* Opening and closing the camera.  A handle record h holds                *)
(*   connected   zwo.Camera.connected                                      *)
(*   handle      whether the driver holds the device open                  *)
(*   calls       the driver calls made since construction, in order        *)
(*   exc         the exception that is propagating                         *)
(*   primary     the first exception raised                                *)
(*   awaiting    always false: none of these calls suspends                *)
(* The driver's return codes are inputs.                                   *)
(***************************************************************************)
NoHandle == [connected |-> FALSE, handle |-> FALSE, calls |-> <<>>, exc |-> NoExc,
             primary |-> NoExc, awaiting |-> FALSE]

\* a close that clears connected only when the driver call succeeds
zwo_Camera_close_OnSuccess(h, r) ==
    [h EXCEPT !.calls = Append(@, "ASICloseCamera"),
              !.handle = IF r = SUCCESS THEN FALSE ELSE @,
              !.connected = IF r = SUCCESS THEN FALSE ELSE @,
              !.exc = ZwoIoError_or_none(r)]

\* zwo.Camera.close: ASICloseCamera (r); finally connected = False
zwo_Camera_close(h, r) ==
    [h EXCEPT !.calls = Append(@, "ASICloseCamera"),
              !.handle = IF r = SUCCESS THEN FALSE ELSE @,
              !.connected = FALSE,
              !.exc = ZwoIoError_or_none(r)]

\* the except clause of zwo.Camera.open: `self.close(); raise e`.  An
\* exception of close leaves the clause in place of e
zwo_Camera_open_except(h, rclose) ==
    IF zwo_Camera_close(h, rclose).exc # NoExc
    THEN zwo_Camera_close(h, rclose)
    ELSE [zwo_Camera_close(h, rclose) EXCEPT !.exc = h.exc]

\* zwo.Camera.open: ASIOpenCamera, ASIInitCamera, connected = True
zwo_Camera_open(h, r) ==
    IF r.open # SUCCESS
    THEN zwo_Camera_open_except(
             [h EXCEPT !.calls = Append(@, "ASIOpenCamera"),
                       !.exc = ZwoIoError(r.open), !.primary = ZwoIoError(r.open)],
             r.close)
    ELSE IF r.init # SUCCESS
    THEN zwo_Camera_open_except(
             [h EXCEPT !.calls = @ \o <<"ASIOpenCamera", "ASIInitCamera">>,
                       !.handle = TRUE,
                       !.exc = ZwoIoError(r.init), !.primary = ZwoIoError(r.init)],
             r.close)
    ELSE [h EXCEPT !.calls = @ \o <<"ASIOpenCamera", "ASIInitCamera">>,
                   !.handle = TRUE, !.connected = TRUE]

\* zwo.Camera.disable_dark_subtract: ASIDisableDarkSubtract (r)
disable_dark_subtract(h, r) ==
    [h EXCEPT !.calls = Append(@, "ASIDisableDarkSubtract"),
              !.exc = ZwoIoError_or_none(r), !.primary = ZwoIoError_or_none(r)]

\* zwo.Camera.stop_video_exposure: ASIStopVideoCapture (r); a ZwoError is
\* swallowed
stop_video_exposure(h, r) ==
    [h EXCEPT !.calls = Append(@, "ASIStopVideoCapture"),
              !.exc = IF r # SUCCESS /\ ~IsZwoError(ZwoIoError(r))
                      THEN ZwoIoError(r) ELSE NoExc]

\* Camera.open (app/camera.py): open the device, then three settings
Camera_open(h0, r) ==
    Then(Then(Then(Then(h0,
        LAMBDA h : zwo_Camera_open(h, r)),
        LAMBDA h : disable_dark_subtract(h, r.dark)),
        LAMBDA h : stop_video_exposure(h, r.video)),
        LAMBDA h : [h EXCEPT !.calls = Append(@, "ASIStopExposure"),
                             !.exc = stop_exposure(r.stop)])

\* Camera.close (app/camera.py): close the device, then the stored artifact
Camera_close(h, f, r) ==
    IF zwo_Camera_close(h, r).exc # NoExc
    THEN [h |-> [zwo_Camera_close(h, r) EXCEPT !.primary = ZwoIoError_or_none(r)], f |-> f]
    ELSE [h |-> zwo_Camera_close(h, r), f |-> [f EXCEPT !.closed = TRUE]]

\* zwo.Camera.__del__: close, whatever it raises is dropped
__del__(h, r) == [zwo_Camera_close(h, r) EXCEPT !.exc = NoExc]

\* the return codes of one open: at most one of its calls fails
OpenOk == [open |-> SUCCESS, init |-> SUCCESS, dark |-> SUCCESS, video |-> SUCCESS,
           stop |-> SUCCESS, close |-> SUCCESS]
OpenErrors == {INVALID_ID, CAMERA_REMOVED, GENERAL_ERROR}
CloseCodes == {SUCCESS, CAMERA_CLOSED, GENERAL_ERROR}
OpenReturnCodes ==
    {[[OpenOk EXCEPT ![k] = e] EXCEPT !.close = c] :
        k \in {"open", "init", "dark", "video", "stop"},
        e \in OpenErrors \cup {SUCCESS}, c \in CloseCodes}

\* the handle after operation op, with the exceptions of the operation;
\* opened keeps the exceptions of the open
Life(phase, op, h, opened) ==
    [phase |-> phase, op |-> op, connected |-> h.connected, handle |-> h.handle,
     calls |-> h.calls, exc |-> h.exc, primary |-> h.primary,
     opened |-> IF op = "open" THEN <<h.exc, h.primary>> ELSE opened]
HandleOf(l) ==
    [connected |-> l.connected, handle |-> l.handle, calls |-> l.calls, exc |-> NoExc,
     primary |-> NoExc, awaiting |-> FALSE]
\* the camera as the running application holds it: opened by lifespan
Opened == Life("entered", "open", Camera_open(NoHandle, OpenOk), <<NoExc, NoExc>>)

(***************************************************************************)
(* The HTTP handlers (app/main.py).  None of them awaits: each runs as one *)
(* step.  A background task starts after its request's response was sent,  *)
(* so other requests and tasks may run between camera_expose and the       *)
(* task's first line.                                                      *)
(***************************************************************************)
\* BytesIO.getbuffer().nbytes, counted in blocks
nbytes(f) == Len(f.bytes)

\* the body of GET /camera/status
camera_status_body(flag, f) ==
    IF flag THEN "exposing"
    ELSE IF ~flag /\ nbytes(f) > 0 THEN "complete"
    ELSE "error"

\* a handler that does not look at the flag
Admits_Always(flag) == TRUE

\* whether POST /camera/expose admits the request
Admits(flag) == ~flag

IdleTasks == {t \in Tasks : pc[t] = "idle"}
\* the task a newly admitted request becomes
NextTask == CHOOSE t \in IdleTasks : \A u \in IdleTasks : t <= u

Response(req, c, status, content, scheduled) ==
    [req |-> req, code |-> c, status |-> status, content |-> content,
     scheduled |-> scheduled]

camera_expose(p) ==
    /\ ~Admits(is_exposing) \/ IdleTasks # {}
    /\ IF Admits(is_exposing)
       THEN /\ pc' = [pc EXCEPT ![NextTask] = "scheduled"]
            /\ parameters' = [parameters EXCEPT ![NextTask] = p]
            /\ http' = Response("expose", 200, "", <<>>, 1)
       ELSE /\ UNCHANGED <<pc, parameters>>
            /\ http' = Response("expose", 409, "", <<>>, 0)
    /\ UNCHANGED <<cam_info, roi, controls, is_exposing, _buffer, _fits_data,
                   buffer_arg, entry, last, calls, roi_call, life, run>>

camera_status ==
    /\ http' = Response("status", 200, camera_status_body(is_exposing, _fits_data),
                        <<>>, 0)
    /\ UNCHANGED <<cam_info, roi, controls, is_exposing, _buffer, _fits_data, pc,
                   parameters, buffer_arg, entry, last, calls, roi_call, life, run>>

camera_image ==
    /\ http' = IF _fits_data.closed
               THEN Response("image", 500, "", <<>>, 0)
               ELSE Response("image", 200, "", _fits_data.bytes, 0)
    /\ UNCHANGED <<cam_info, roi, controls, is_exposing, _buffer, _fits_data, pc,
                   parameters, buffer_arg, entry, last, calls, roi_call, life, run>>

(***************************************************************************)
(* The capture task take_image -> Camera.capture_image_async.              *)
(***************************************************************************)
ConfigFails ==
    {<<"reset_roi", "get">>, <<"reset_roi", "prop">>,
     <<"reset_roi", "ASISetROIFormat">>, <<"reset_roi", "ASISetStartPos">>,
     <<"GAIN", "set">>, <<"OFFSET", "set">>,
     <<"image_type", "get">>, <<"image_type", "prop">>,
     <<"image_type", "ASISetROIFormat">>, <<"image_type", "ASISetStartPos">>,
     <<"image_size", "get">>}
StartFails == {<<"EXPOSURE", "set">>, <<"start", "ASIStartExposure">>}
FinishFails ==
    {<<"poll", "ASIGetExpStatus">>, <<"download", "get">>,
     <<"download", "ASIGetDataAfterExp">>, <<"assemble", "get">>,
     <<"assemble", "PrimaryHDU">>, <<"assemble", "writeto">>}

\* the driver's answers to one segment: the failing call and the status read.
\* The status is read only when no earlier call fails, and the calls after the
\* poll loop are made only on SUCCESS: the other pairs repeat these.
Answers(fails) ==
    {<<NoFail, status>> : status \in ExposureStatus}
    \cup {<<fail, "WORKING">> : fail \in fails \ (FinishFails \ {<<"poll", "ASIGetExpStatus">>})}
    \cup {<<fail, "SUCCESS">> : fail \in fails \cap (FinishFails \ {<<"poll", "ASIGetExpStatus">>})}

\* what task t can touch, at the start of a run segment
Machine(t) ==
    [is_exposing |-> is_exposing, buffer |-> _buffer, fits |-> _fits_data,
     roi |-> roi, controls |-> controls, arg |-> buffer_arg[t],
     calls |-> <<>>, exc |-> NoExc, awaiting |-> FALSE,
     status |-> "none", slept |-> None, started |-> None, closed |-> <<>>]

\* where the segment's exception arose: the failing call's stage, "status" for
\* a status other than SUCCESS, "validation" for a ROI that set_roi rejects,
\* "download" and "assemble" for their own checks, "cancel"
Cause(m, fail) ==
    IF m.exc = NoExc THEN "none"
    ELSE IF m.exc.type = "CancelledError" \/ fail[1] = "cancel" THEN "cancel"
    ELSE IF m.exc.type = "ZwoError" THEN "status"
    ELSE IF m.exc = ValueError("Buffer must be size bytes") THEN "download"
    ELSE IF m.exc = ValueError("cannot reshape array") THEN "assemble"
    ELSE IF m.exc.type = "ValueError" THEN "validation"
    ELSE fail[1]

\* the injected failure, if the segment reached it
Fired(m, fail) ==
    IF m.exc.type \in {"ZwoIoError", "MemoryError"} \/ fail[1] = "cancel"
    THEN fail ELSE NoFail

\* the state after a run segment of task t that ended as m; a finished task's
\* frame is gone
Commit(m, t, op, fail, found) ==
    /\ is_exposing' = m.is_exposing
    /\ _buffer' = m.buffer
    /\ _fits_data' = m.fits
    /\ roi' = m.roi
    /\ controls' = m.controls
    /\ calls' = m.calls
    /\ pc' = [pc EXCEPT ![t] = IF m.awaiting THEN "awaiting" ELSE "done"]
    /\ buffer_arg' = [buffer_arg EXCEPT ![t] = IF m.awaiting THEN m.arg ELSE NoArg]
    /\ parameters' = [parameters EXCEPT ![t] = IF m.awaiting THEN @ ELSE NoParameters]
    /\ entry' = [entry EXCEPT ![t] = IF m.awaiting THEN found
                                     ELSE BytesIO(<<0, "init">>)]
    /\ last' = [op |-> op, t |-> t, fail |-> Fired(m, fail), cause |-> Cause(m, fail),
                exc |-> m.exc,
                awaiting |-> m.awaiting, fits |-> _fits_data, buffer |-> _buffer,
                is_exposing |-> is_exposing, entry |-> found,
                status |-> m.status, slept |-> m.slept, started |-> m.started,
                closed |-> m.closed]
    /\ http' = NoHttp
    /\ UNCHANGED <<cam_info, roi_call, life, run>>

TaskStart(t) ==
    /\ pc[t] = "scheduled"
    /\ \E a \in Answers(ConfigFails \cup StartFails \cup FinishFails) :
          \E m \in {EntrySegment(Machine(t), t, parameters[t], a[2], a[1])} :
              Commit(m, t, "start", a[1], _fits_data)

TaskPoll(t) ==
    /\ pc[t] = "awaiting"
    /\ \E a \in Answers(FinishFails) :
          \E m \in {PollSegment(Machine(t), t, parameters[t], a[2], a[1])} :
              Commit(m, t, "poll", a[1], entry[t])

TaskCancel(t) ==
    /\ pc[t] = "awaiting"
    /\ \E fail \in {NoFail, <<"cancel", "ASIStopExposure">>} :
          \E m \in {CancelSegment(Machine(t), t,
                                  code(fail, <<"cancel", "ASIStopExposure">>))} :
              Commit(m, t, "cancel", fail, entry[t])

\* the application once lifespan has opened the camera
Init ==
    /\ cam_info \in CaptureSensors
    /\ roi = PowerOnRoi(cam_info)
    /\ InitCamera
    /\ life = Opened

Next ==
    \/ \E p \in Requests : camera_expose(p)
    \/ camera_status
    \/ camera_image
    \/ \E t \in Tasks : TaskStart(t)
    \/ \E t \in Tasks : TaskPoll(t)
    \/ \E t \in Tasks : TaskCancel(t)

Spec == Init /\ [][Next]_vars

(***************************************************************************)
(* Camera.set_roi on its own: one call, on any of the sensors below, from   *)
(* any ROI the driver may hold, with any of the requests below, under any   *)
(* answer of the driver.                                                   *)
(***************************************************************************)
RoiSensors ==
    {[Name |-> "ZWO ASI178MM", MaxWidth |-> 16, MaxHeight |-> 4,
      IsColorCam |-> FALSE, BayerPattern |-> 0, SupportedBins |-> {1, 2}],
     [Name |-> "ZWO ASI178MM", MaxWidth |-> 20, MaxHeight |-> 5,
      IsColorCam |-> FALSE, BayerPattern |-> 0, SupportedBins |-> {1, 2}],
     [Name |-> "ZWO ASI120MM", MaxWidth |-> 32, MaxHeight |-> 32,
      IsColorCam |-> FALSE, BayerPattern |-> 0, SupportedBins |-> {1, 2}],
     [Name |-> "ZWO ASI178MC", MaxWidth |-> 3096, MaxHeight |-> 2080,
      IsColorCam |-> TRUE, BayerPattern |-> 0, SupportedBins |-> {1, 2}]}

\* the ROIs the driver may hold: the power-on frame and the binned full frame
DriverRois(info) ==
    {r \in {PowerOnRoi(info),
            ROI(0, 0, (info.MaxWidth \div 2) - ((info.MaxWidth \div 2) % 8),
                (info.MaxHeight \div 2) - ((info.MaxHeight \div 2) % 2), 2, RAW16)} :
        _set_roi_check(info, r) = NoExc}

RoiX == {None, Some(-1), Some(0), Some(4), Some(8)}
RoiY == {None, Some(-1), Some(0), Some(2)}
RoiWidth == {None, Some(0), Some(8), Some(12), Some(16), Some(24), Some(32)}
RoiHeight == {None, Some(1), Some(2), Some(3), Some(4), Some(32)}
RoiBins == {None, Some(0), Some(1), Some(2), Some(3)}
RoiImageType == {None, Some(RAW8), Some(RAW16)}
RoiReturnCodes ==
    {AllOk, [AllOk EXCEPT !.get = GENERAL_ERROR], [AllOk EXCEPT !.prop = GENERAL_ERROR],
     [AllOk EXCEPT !.fmt = GENERAL_ERROR], [AllOk EXCEPT !.pos = GENERAL_ERROR]}

InitRoi ==
    /\ cam_info \in RoiSensors
    /\ roi \in DriverRois(cam_info)
    /\ InitCamera
    /\ life = Opened

SetRoi(x, y, width, height, bins, image_type, rc) ==
    /\ \E res \in {set_roi(cam_info, roi, x, y, width, height, bins, image_type, rc)} :
          /\ roi' = res.roi
          /\ roi_call' = [exc |-> res.exc, new_roi |-> res.new_roi, calls |-> res.calls,
                          before |-> Some(roi),
                          request |-> [x |-> x, y |-> y, width |-> width,
                                       height |-> height, bins |-> bins,
                                       image_type |-> image_type]]
    /\ UNCHANGED <<cam_info, controls, is_exposing, _buffer, _fits_data, pc,
                   parameters, buffer_arg, entry, last, calls, http, life, run>>

NextRoi ==
    /\ roi_call = NoRoiCall
    /\ \E x \in RoiX, y \in RoiY, width \in RoiWidth, height \in RoiHeight,
          bins \in RoiBins, image_type \in RoiImageType, rc \in RoiReturnCodes :
           SetRoi(x, y, width, height, bins, image_type, rc)

SpecRoi == InitRoi /\ [][NextRoi]_vars

(***************************************************************************)
(* The application's lifespan: `with Camera(0) as camera` (app/main.py).   *)
(***************************************************************************)
InitOpen ==
    /\ cam_info \in CaptureSensors
    /\ roi = PowerOnRoi(cam_info)
    /\ InitCamera
    /\ life = Life("created", "none", NoHandle, <<NoExc, NoExc>>)

\* Camera.__enter__: open; the block is entered only when open returns
__enter__(r) ==
    /\ life.phase = "created"
    /\ \E h \in {Camera_open(HandleOf(life), r)} :
          life' = Life(IF h.exc = NoExc THEN "entered" ELSE "failed", "open", h,
                       life.opened)
    /\ UNCHANGED <<cam_info, roi, controls, is_exposing, _buffer, _fits_data, pc,
                   parameters, buffer_arg, entry, last, calls, http, roi_call, run>>

\* Camera.__exit__: close
__exit__(r) ==
    /\ life.phase = "entered"
    /\ \E res \in {Camera_close(HandleOf(life), _fits_data, r)} :
          /\ life' = Life("closed", "close", res.h, life.opened)
          /\ _fits_data' = res.f
    /\ UNCHANGED <<cam_info, roi, controls, is_exposing, _buffer, pc,
                   parameters, buffer_arg, entry, last, calls, http, roi_call, run>>

\* the zwo.Camera object is collected once nothing refers to it
Collect(r) ==
    /\ life.phase \in {"failed", "closed"}
    /\ life' = Life("deleted", "__del__", __del__(HandleOf(life), r), life.opened)
    /\ UNCHANGED <<cam_info, roi, controls, is_exposing, _buffer, _fits_data, pc,
                   parameters, buffer_arg, entry, last, calls, http, roi_call, run>>

NextOpen ==
    \/ \E r \in OpenReturnCodes : __enter__(r)
    \/ \E r \in CloseCodes : __exit__(r)
    \/ \E r \in CloseCodes : Collect(r)

SpecOpen == InitOpen /\ [][NextOpen]_vars

(***************************************************************************)
(* zwo.Camera's two captures, called directly with a buffer of the         *)
(* caller: the blocking capture_image runs to its end in one piece, the    *)
(* cooperative capture_image_async runs in segments.  The driver's answers *)
(* to the status reads are a script both are given: WORKING some times,    *)
(* then a terminal status or an error of the read itself.                  *)
(***************************************************************************)
MaxPolls == 2

Scripts ==
    {[i \in 1..(k + 1) |-> IF i <= k THEN "WORKING" ELSE e] :
        k \in 0..MaxPolls, e \in {"SUCCESS", "FAILED", "IDLE", "ERROR"}}

\* the failing call of a run, other than a status read
ZwoFails ==
    StartFails \cup {<<"download", "get">>, <<"download", "ASIGetDataAfterExp">>,
                     NoFail}

\* _get_exposure_status raises when the driver answers the read with an error
ReadFail(answer, fail) ==
    IF answer = "ERROR" THEN <<"poll", "ASIGetExpStatus">> ELSE fail

RECURSIVE capture_image_loop(_, _, _, _, _)
\* capture_image from its first status read on: the while loop with
\* time.sleep, the status check and the download
capture_image_loop(m, t, p, script, fail) ==
    IF Head(script) = "ERROR"
    THEN [m EXCEPT !.calls = Append(@, "ASIGetExpStatus"),
                   !.exc = ZwoIoError(GENERAL_ERROR)]
    ELSE IF Head(script) = "WORKING"
    THEN capture_image_loop([m EXCEPT !.calls = Append(@, "ASIGetExpStatus"),
                                      !.status = "WORKING",
                                      !.slept = Some(PollInterval(p.exposure_us))],
                            t, p, Tail(script), fail)
    ELSE IF Head(script) # "SUCCESS"
    THEN [m EXCEPT !.calls = Append(@, "ASIGetExpStatus"),
                   !.status = Head(script),
                   !.exc = ZwoError(Head(script))]
    ELSE _download_image([m EXCEPT !.calls = Append(@, "ASIGetExpStatus"),
                                   !.status = "SUCCESS"], t, fail)

\* zwo.Camera.capture_image, blocking
capture_image(m0, t, p, script, fail) ==
    Then(Then(Then([m0 EXCEPT !.arg = [id |-> m0.buffer.id,
                                       len |-> Len(m0.buffer.bytes)]],
        LAMBDA m : set_control_value(m, "EXPOSURE", p.exposure_us,
                                     code(fail, <<"EXPOSURE", "set">>))),
        LAMBDA m : _start_exposure(m, p, code(fail, <<"start", "ASIStartExposure">>))),
        LAMBDA m : capture_image_loop(m, t, p, script, fail))

\* the run after a segment of the cooperative capture that ended as a
ZwoRun(a, b, p, script, fail) ==
    /\ run' = [phase |-> IF a.awaiting THEN "awaiting" ELSE "done",
               script |-> script, fail |-> fail, p |-> p,
               coop |-> Some([a EXCEPT !.awaiting = FALSE]), blocking |-> b,
               waits |-> run.waits + (IF a.awaiting THEN 1 ELSE 0)]
    /\ controls' = a.controls
    /\ calls' = a.calls
    /\ UNCHANGED <<cam_info, roi, is_exposing, _buffer, _fits_data, pc, parameters,
                   buffer_arg, entry, last, http, roi_call, life>>

\* both captures are called with the same arguments: the cooperative one
\* runs to its first suspension or its end, the blocking one to its end
ZwoCapture(p, extra, script, fail) ==
    /\ run.phase = "idle"
    /\ \E m0 \in {[Machine(1) EXCEPT
                        !.buffer = [id |-> 1,
                                    bytes |-> Zeros(image_size_in_bytes(roi) + extra)]]} :
          \E a \in {Then(StartExposure(m0, p, fail),
                         LAMBDA m : PollLoop(m, 1, p, Head(script),
                                             ReadFail(Head(script), fail)))},
             b \in {capture_image(m0, 1, p, script, fail)} :
              ZwoRun(a, Some(b), p, Tail(script), fail)

\* the cooperative capture wakes from asyncio.sleep and reads the status again
ZwoWake ==
    /\ run.phase = "awaiting"
    /\ \E a \in {PollLoop(run.coop[1], 1, run.p, Head(run.script),
                           ReadFail(Head(run.script), run.fail))} :
          ZwoRun(a, run.blocking, run.p, Tail(run.script), run.fail)

InitZwo ==
    /\ cam_info \in CaptureSensors
    /\ roi \in {PowerOnRoi(cam_info), [PowerOnRoi(cam_info) EXCEPT !.image_type = RAW16]}
    /\ InitCamera
    /\ life = Opened

NextZwo ==
    \/ \E p \in Requests, extra \in {0, 1}, script \in Scripts, fail \in ZwoFails :
          ZwoCapture(p, extra, script, fail)
    \/ ZwoWake

SpecZwo == InitZwo /\ [][NextZwo]_vars

(***************************************************************************)
(* Properties.                                                             *)
(***************************************************************************)
AllZero(bytes) == \A i \in 1..Len(bytes) : bytes[i] = 0
InCalls(c) == \E i \in 1..Len(calls) : calls[i] = c
\* the latest segment ended the capture (it did not suspend)
Exited == last.op # "none" /\ ~last.awaiting
\* a capture is running: a task is between its entry and its exit
CaptureRunning == \E t \in Tasks : pc[t] = "awaiting"
\* f holds the complete serialization of one capture of the full frame
FullySerialized(f) ==
    /\ Len(f.bytes) = 2
    /\ f.bytes[1].block = "header"
    /\ f.bytes[1].cards \in {Header(p, cam_info) : p \in Requests}
    /\ f.bytes[2].block = "data"
    /\ Len(f.bytes[2].pixels) = cam_info.MaxWidth * cam_info.MaxHeight * 2
\* the latest segment failed in a configuration step at capture entry
ConfigFailed ==
    /\ last.op = "start"
    /\ last.cause \in {"reset_roi", "GAIN", "OFFSET", "image_type", "validation"}

\* C1 (as claimed): no capture issues the hardware start-exposure call while
\* another capture that was entered has not yet exited.
C1_AtMostOneExposure ==
    (last.op = "start" /\ InCalls("ASIStartExposure"))
        => \A u \in Tasks \ {last.t} : pc[u] # "awaiting"

\* C2: whenever capture_image_async has returned or raised, on any exit path,
\* the exposing flag is false.
C2_FlagClearedOnExit == Exited => ~is_exposing

\* C2 witness: a capture that had set the flag left by cancellation
C2_Witness ==
    /\ last.op = "cancel" /\ Exited /\ last.exc = CancelledError
    /\ last.is_exposing /\ ~is_exposing

\* C3: a capture cancelled in the poll loop issues the hardware stop-exposure
\* call and then raises the cancellation, whatever the stop call answers.
C3_StopThenReraise ==
    last.op = "cancel" => /\ calls = <<"ASIStopExposure">>
                          /\ last.exc = CancelledError
                          /\ Exited

\* C3 witness: a cancelled capture whose stop call answered with a driver error
C3_Witness ==
    /\ last.op = "cancel"
    /\ last.fail = <<"cancel", "ASIStopExposure">>
    /\ last.exc = CancelledError

\* C4 (as claimed): after a cancelled capture has exited, the stored artifact
\* holds the same bytes as when that capture started.
C4_CancelKeepsArtifact == last.op = "cancel" => _fits_data.bytes = last.entry.bytes

\* C4 (amended): after a cancelled capture has exited, the stored artifact is
\* a new, open, empty one, whatever was stored before, and the buffer is zero.
C4_CancelResetsArtifact ==
    last.op = "cancel" => /\ nbytes(_fits_data) = 0
                          /\ ~_fits_data.closed
                          /\ _fits_data.id = <<last.t, "reset">>
                          /\ AllZero(_buffer.bytes)

\* C4 witness: a capture cancelled while a non-empty artifact was stored
C4_Witness ==
    /\ last.op = "cancel" /\ nbytes(last.entry) > 0 /\ nbytes(last.fits) > 0
    /\ nbytes(_fits_data) = 0

\* C5: after any capture that fails (configuration, terminal status, download,
\* assembly or serialization) the stored artifact is empty and every byte of
\* the pixel buffer is zero.
C5_FailureResets ==
    (Exited /\ last.exc # NoExc /\ last.op # "cancel")
        => /\ nbytes(_fits_data) = 0
           /\ AllZero(_buffer.bytes)

\* C5 witness: the serialization failed after the download had filled the
\* buffer, with a non-empty artifact stored before
C5_Witness ==
    /\ Exited /\ last.fail = <<"assemble", "writeto">>
    /\ InCalls("ASIGetDataAfterExp")
    /\ nbytes(last.fits) > 0
    /\ nbytes(_fits_data) = 0

\* C6: wherever a status or image request can run, the stored artifact is open
\* and either empty or the complete serialization of one capture, never a
\* partly written one; a suspended capture has left it as it found it, and
\* GET /camera/image answers with exactly these bytes.
C6_NeverPartial ==
    /\ ~_fits_data.closed
    /\ nbytes(_fits_data) = 0 \/ FullySerialized(_fits_data)
    /\ (last.op # "none" /\ last.awaiting) => _fits_data = last.fits
    /\ http.req = "image" => http.code = 200 /\ http.content = _fits_data.bytes

\* C6 witness: an image request answered with a complete artifact while a
\* capture is suspended in its poll loop
C6_Witness ==
    /\ http.req = "image" /\ Len(http.content) = 2
    /\ CaptureRunning

\* C7 (as claimed): GET /camera/status answers "exposing" whenever a capture
\* is running, "complete" whenever none is and the artifact is non-empty, and
\* "error" otherwise.
C7_StatusReflectsCapture ==
    http.req = "status"
        => http.status = IF CaptureRunning THEN "exposing"
                         ELSE IF nbytes(_fits_data) > 0 THEN "complete"
                         ELSE "error"

C9_ConfigFailureMutatesNothing ==
    ConfigFailed => /\ _fits_data.bytes = last.fits.bytes
                    /\ _buffer.bytes = last.buffer.bytes
                    /\ ~is_exposing

\* C9 (amended): when a configuration step at capture entry fails, the error
\* reaches the caller, no exposure was started and the exposing flag is not
\* set; the stored artifact is replaced by a new empty one and the pixel
\* buffer, kept at its length, is zeroed.
C9_ConfigFailureResets ==
    ConfigFailed => /\ Exited /\ last.exc # NoExc
                    /\ ~is_exposing
                    /\ ~InCalls("ASIStartExposure")
                    /\ _fits_data = BytesIO(<<last.t, "reset">>)
                    /\ _buffer = [last.buffer EXCEPT !.bytes = Zeros(Len(@))]

\* C9 witness: a driver error in a configuration step, with a non-empty
\* artifact stored and pixel data in the buffer
C9_Witness ==
    /\ ConfigFailed /\ last.exc.type = "ZwoIoError"
    /\ nbytes(last.fits) > 0 /\ ~AllZero(last.buffer.bytes)

\* C10: whenever set_roi has issued both driver calls, the ROI it resolved
\* satisfies every geometry constraint.
C10_AcceptedRoiIsValid ==
    roi_call.calls = <<"ASISetROIFormat", "ASISetStartPos">>
        => \E r \in {roi_call.new_roi[1]} :
              /\ r.width % 8 = 0 /\ r.height % 2 = 0
              /\ r.width <= cam_info.MaxWidth \div r.bins
              /\ r.height <= cam_info.MaxHeight \div r.bins
              /\ r.x + r.width <= cam_info.MaxWidth \div r.bins
              /\ r.y + r.height <= cam_info.MaxHeight \div r.bins
              /\ r.width >= 8 /\ r.height >= 2 /\ r.bins >= 1
              /\ r.x >= 0 /\ r.y >= 0

\* C10 witness: an accepted binned request, its width defaulted and its
\* start position off the origin
C10_Witness ==
    /\ roi_call.calls = <<"ASISetROIFormat", "ASISetStartPos">>
    /\ roi_call.exc = NoExc
    /\ roi_call.request.width = None
    /\ roi_call.new_roi[1].bins = 2
    /\ roi_call.new_roi[1].x > 0

\* the latest set_roi call got as far as resolving its request
Resolved == roi_call.new_roi # None
\* the latest capture segment ended in success: it published an artifact
Published == Exited /\ last.exc = NoExc /\ last.op \in {"start", "poll"}
FullFrame == ROI(0, 0, cam_info.MaxWidth, cam_info.MaxHeight, 1, RAW16)

\* C11: set_roi resolves the fields a request leaves out: bins to the
\* driver's current bins, width and height to the binned sensor extent rounded
\* down to a multiple of 8 and of 2, x and y to the centred start; a field
\* that is given is taken as given.  A 3096x2080 sensor asked for bins = 1
\* alone resolves to 3096x2080 at (0, 0).
C11_Defaulting ==
    Resolved =>
        \E r \in {roi_call.new_roi[1]}, q \in {roi_call.request} :
            /\ r.bins = IF q.bins = None THEN roi_call.before[1].bins ELSE q.bins[1]
            /\ r.width = IF q.width = None
                         THEN 8 * ((cam_info.MaxWidth \div r.bins) \div 8)
                         ELSE q.width[1]
            /\ r.height = IF q.height = None
                          THEN 2 * ((cam_info.MaxHeight \div r.bins) \div 2)
                          ELSE q.height[1]
            /\ r.x = IF q.x = None
                     THEN ((cam_info.MaxWidth \div r.bins) - r.width) \div 2
                     ELSE q.x[1]
            /\ r.y = IF q.y = None
                     THEN ((cam_info.MaxHeight \div r.bins) - r.height) \div 2
                     ELSE q.y[1]
            /\ (/\ cam_info.MaxWidth = 3096 /\ cam_info.MaxHeight = 2080
                /\ q.bins = Some(1)
                /\ q.x = None /\ q.y = None /\ q.width = None /\ q.height = None)
               => (r.width = 3096 /\ r.height = 2080 /\ r.x = 0 /\ r.y = 0)

\* C11 witness: the 3096x2080 sensor, bins = 1 and nothing else given, accepted
C11_Witness ==
    /\ cam_info.MaxWidth = 3096 /\ cam_info.MaxHeight = 2080
    /\ roi_call.request = [NoRequest EXCEPT !.bins = Some(1)]
    /\ roi_call.exc = NoExc
    /\ Resolved /\ roi_call.new_roi[1].width = 3096 /\ roi_call.new_roi[1].x = 0
    /\ roi.width = 3096 /\ roi.height = 2080

\* C12 (as claimed): a request rejected with a validation error has reached
\* no mutating driver call: none was issued and the driver's ROI is as before.
C12_RejectedBeforeDriverCalls ==
    roi_call.exc.type = "ValueError"
        => roi_call.calls = <<>> /\ roi = roi_call.before[1]

\* C13 (as claimed): an open that fails has attempted to close the handle
\* before its error reaches the caller, and the driver no longer holds the
\* device open when that close succeeded.
C13_FailedOpenIsClosed ==
    (life.op = "open" /\ life.exc # NoExc)
        => \E i \in 1..Len(life.calls) : life.calls[i] = "ASICloseCamera"

\* C14: once zwo.Camera.close has run, from open's except clause, from
\* __exit__ or from __del__, connected is false, whatever ASICloseCamera
\* answered.
C14_CloseClearsConnected ==
    (life.calls # <<>> /\ life.calls[Len(life.calls)] = "ASICloseCamera")
        => ~life.connected

\* C14 witness: a close of a connected camera whose release call failed
C14_Witness ==
    /\ life.op = "close" /\ life.exc = ZwoIoError(CAMERA_CLOSED)
    /\ life.handle /\ ~life.connected

\* C15 (as claimed): the error a failed open hands to its caller is the
\* error of the step of open that failed, also when the close it triggers
\* fails; connected is cleared.
C15_PrimaryErrorSurvives ==
    (/\ life.op = "open" /\ life.primary # NoExc
     /\ \E i \in 1..Len(life.calls) : life.calls[i] = "ASICloseCamera")
        => life.exc = life.primary /\ ~life.connected

\* C16: a capture that suspends in the poll loop sleeps max(0.01 s,
\* exposure / 25): 0.04 s for an exposure of 1.0 s, 0.01 s for one of 0.1 s
\* (times in microseconds).
C16_PollInterval ==
    (last.op # "none" /\ last.awaiting) =>
        \E e \in {parameters[last.t].exposure_us}, d \in {last.slept[1]} :
            /\ last.slept # None
            /\ d >= 10000 /\ 25 * d >= e
            /\ d = 10000 \/ 25 * d = e
            /\ e = 1000000 => d = 40000
            /\ e = 100000 => d = 10000

\* C16 witness: a suspended capture of 0.1 s, where the floor applies
C16_Witness ==
    /\ last.awaiting /\ last.status = "WORKING"
    /\ parameters[last.t].exposure_us = 100000
    /\ last.slept = Some(10000)

\* C17: a capture issues the download and publishes an artifact only in a
\* segment whose status read is SUCCESS; a status of FAILED or IDLE ends the
\* capture with a ZwoError carrying the status name, with no download call
\* and no artifact.
C17_DownloadOnlyOnSuccess ==
    /\ (last.op \in {"start", "poll"} /\ InCalls("ASIGetDataAfterExp"))
          => last.status = "SUCCESS"
    /\ Published => last.status = "SUCCESS" /\ InCalls("ASIGetDataAfterExp")
    /\ last.status \in {"FAILED", "IDLE"}
          => /\ Exited /\ last.exc = ZwoError(last.status)
             /\ ~InCalls("ASIGetDataAfterExp")
             /\ nbytes(_fits_data) = 0

\* C17 witness: a capture that slept, then read IDLE
C17_Witness ==
    /\ last.op = "poll" /\ last.status = "IDLE"
    /\ last.exc = ZwoError("IDLE") /\ Exited

\* C18: the pixels in the artifact a capture publishes are the bytes the
\* download of that same capture wrote, whatever ran while it was suspended.
C18_OwnPixels ==
    Published =>
        /\ _fits_data.id = <<last.t, "new">>
        /\ Len(_fits_data.bytes) = 2
        /\ _fits_data.bytes[2].pixels
              = Filled(cam_info.MaxWidth * cam_info.MaxHeight * 2, Pixel(last.t))

\* C18 witness: a capture publishes after another capture, run while it was
\* suspended, had left its own pixels in the shared buffer
C18_Witness ==
    /\ Published /\ last.op = "poll"
    /\ \E u \in Tasks \ {last.t} :
          /\ last.buffer.bytes # <<>>
          /\ last.buffer.bytes = Filled(Len(last.buffer.bytes), Pixel(u))

\* C19 (as claimed): the validation error of a request is the first violated
\* condition in the order: unsupported bins, width too small, width too
\* large, width no multiple of 8, height too small, height too large, height
\* no multiple of 2, the 1024 quirk, ROI plus start position out of bounds.
C19_FirstViolationReported ==
    (/\ roi_call.before # None
     /\ roi_call.exc.type = "ValueError"
     /\ roi_call.exc.msg \notin {"X position too small", "Y position too small",
                                 "ROI bins too small"})
    => \E q \in {roi_call.request}, cur \in {roi_call.before[1]} :
          roi_call.exc.msg =
            IF q.bins # None /\ q.bins[1] \notin cam_info.SupportedBins
            THEN "Unsupported bins"
            ELSE LET r == ResolveRoi(cam_info, cur, q.x, q.y, q.width, q.height,
                                     q.bins, q.image_type)
                     bw == cam_info.MaxWidth \div r.bins
                     bh == cam_info.MaxHeight \div r.bins
                 IN  IF r.width < 8 THEN "ROI width too small"
                     ELSE IF r.width > bw
                     THEN "ROI width larger than binned sensor width"
                     ELSE IF r.width % 8 # 0 THEN "ROI width must be a multiple of 8"
                     ELSE IF r.height < 2 THEN "ROI height too small"
                     ELSE IF r.height > bh
                     THEN "ROI height larger than binned sensor height"
                     ELSE IF r.height % 2 # 0
                     THEN "ROI height must be a multiple of 2"
                     ELSE IF cam_info.Name \in QuirkModels
                             /\ (r.width * r.height) % 1024 # 0
                     THEN "ROI width * height must be multiple of 1024"
                     ELSE IF r.x + r.width > bw
                     THEN "ROI and start position larger than binned sensor width"
                     ELSE "ROI and start position larger than binned sensor height"

\* C20: when a capture issues ASIStartExposure, its configuration calls have
\* all been made and have succeeded (the driver holds the full frame in
\* RAW16, the request's gain, offset and exposure time), the buffer is as long
\* as the driver's image and every byte of it is zero.
C20_StartFindsCleanBuffer ==
    last.started # None =>
        \E s \in {last.started[1]} :
            /\ s.roi = FullFrame
            /\ s.controls = [c \in {"GAIN", "OFFSET", "EXPOSURE"} |->
                                CASE c = "GAIN" -> s.parameters.gain
                                  [] c = "OFFSET" -> s.parameters.offset
                                  [] c = "EXPOSURE" -> s.parameters.exposure_us]
            /\ SubSeq(calls, 1, 8)
                  = <<"ASISetROIFormat", "ASISetStartPos", "ASISetControlValue(GAIN)",
                      "ASISetControlValue(OFFSET)", "ASISetROIFormat", "ASISetStartPos",
                      "ASISetControlValue(EXPOSURE)", "ASIStartExposure">>
            /\ Len(s.buffer) = s.roi.width * s.roi.height * 2
            /\ AllZero(s.buffer)

\* C20 witness: a capture starts its exposure after an earlier capture left
\* pixel data in the buffer
C20_Witness ==
    /\ last.started # None /\ last.op = "start"
    /\ last.buffer.bytes # <<>> /\ ~AllZero(last.buffer.bytes)

\* C21: a capture replaces the pixel buffer by new storage only when the
\* driver's image size differs from the buffer's length (the storage it found
\* is kept, with its length, otherwise), and clearing is idempotent: after one
\* clear, and after a second one, every byte is zero and the storage and its
\* length are those before the clears.
C21_ReuseAndIdempotentClear ==
    /\ last.op # "none" =>
          /\ _buffer.id # last.buffer.id
                => Len(_buffer.bytes) # Len(last.buffer.bytes)
          /\ _buffer.id = last.buffer.id
                => Len(_buffer.bytes) = Len(last.buffer.bytes)
    /\ \E once \in {_clear_buffer(_buffer)} :
          /\ AllZero(once.bytes)
          /\ Len(once.bytes) = Len(_buffer.bytes)
          /\ once.id = _buffer.id
          /\ _clear_buffer(once) = once

\* C21 witness: a capture found the pixels of an earlier one in the buffer,
\* kept the storage, cleared it before the exposure and, the start having
\* failed, cleared it again in its except clause
C21_Witness ==
    /\ last.op = "start" /\ last.fail \in StartFails
    /\ last.buffer.bytes # <<>> /\ ~AllZero(last.buffer.bytes)
    /\ _buffer.id = last.buffer.id
    /\ AllZero(_buffer.bytes)

\* C22 (as claimed): the stored artifact of an earlier capture is closed only
\* once the new one has been built and serialized: a capture that fails closes
\* the artifact it found in its except clause only, and no artifact of its own
\* was ever stored.
C22_PreviousClosedAfterSerialized ==
    (last.op # "none" /\ last.closed # <<>> /\ nbytes(last.fits) > 0)
        => /\ last.closed[1] = last.fits.id
           /\ last.exc # NoExc => last.closed = <<last.fits.id>>

\* C23: a capture yields only at the sleep of the poll loop. A segment that
\* suspends has read WORKING last, has slept the poll interval, has raised
\* nothing, has downloaded nothing and has touched neither the artifact nor,
\* after its entry, the buffer; the entry segment has set the flag and issued
\* the start before. A segment that read a terminal status, or failed, ran to
\* the exit: the flag is cleared and the task is over in the same step.
C23_YieldsOnlyAtSleep ==
    last.op # "none" =>
        IF last.awaiting
        THEN /\ last.status = "WORKING" /\ last.slept # None
             /\ last.exc = NoExc
             /\ pc[last.t] = "awaiting"
             /\ calls # <<>> /\ calls[Len(calls)] = "ASIGetExpStatus"
             /\ ~InCalls("ASIGetDataAfterExp")
             /\ _fits_data = last.fits /\ last.closed = <<>>
             /\ last.op = "start" =>
                   /\ is_exposing
                   /\ Len(calls) > 1 /\ calls[Len(calls) - 1] = "ASIStartExposure"
             /\ last.op = "poll" => _buffer = last.buffer /\ Len(calls) = 1
        ELSE /\ ~is_exposing
             /\ pc[last.t] # "awaiting"
             /\ last.status = "SUCCESS" /\ last.exc = NoExc
                   => /\ calls[Len(calls)] = "ASIGetDataAfterExp"
                      /\ FullySerialized(_fits_data)
                      /\ last.closed = <<last.fits.id>>

\* C23 witness: a status request is served while the capture, woken once
\* already, is suspended again at the sleep of the poll loop
C23_Witness ==
    /\ last.awaiting /\ last.op = "poll"
    /\ http.req = "status" /\ http.status = "exposing"

\* C24 (as claimed): a capture in the poll loop keeps the exposing flag set;
\* the flag becomes false only when that capture exits.
C24_FlagSetWhileInPollLoop ==
    \A t \in Tasks : pc[t] = "awaiting" => is_exposing

\* C25 (as claimed): set_roi is all-or-nothing: whenever it raises, a
\* validation error or a driver error in either call, the driver's ROI format
\* and start position are those before the call.
C25_AllOrNothing ==
    (roi_call.before # None /\ roi_call.exc # NoExc) => roi = roi_call.before[1]

\* C26: called with the same arguments and given the same answers of the
\* driver, the blocking capture_image and the cooperative capture_image_async
\* issue the same driver calls in the same order (the exposure time, the
\* start, the status reads, the download) and end alike: the same exception,
\* or the same buffer with the same content; the driver's control values are
\* the same, and so are the last status read and the interval slept.
C26_BlockingEqualsCooperative ==
    run.phase = "done" =>
        \E a \in {run.coop[1]}, b \in {run.blocking[1]} :
            /\ a.calls = b.calls
            /\ a.exc = b.exc
            /\ a.buffer = b.buffer
            /\ a.controls = b.controls
            /\ a.status = b.status /\ a.slept = b.slept

\* C26 witness: a capture that read WORKING at least twice, then SUCCESS, and
\* returned the downloaded pixels
C26_Witness ==
    /\ run.phase = "done" /\ run.waits >= 2
    /\ run.coop[1].exc = NoExc
    /\ ~AllZero(run.coop[1].buffer.bytes)

=============================================================================
